---- MODULE Spec2Model ----
(***************************************************************************)
(* Transcription relay: the session entity (TranscriptionSession), the     *)
(* persistence boundary (DrizzleTranscriptionRepository), the streaming    *)
(* provider (SonioxProvider), the three use cases (StartTranscription,     *)
(* ProcessAudioChunk, StopTranscription) and the per-connection controller *)
(* (TranscriptionController, explicit-start and auto-initialization        *)
(* variants).                                                              *)
(*                                                                         *)
(* Specifications:                                                         *)
(*   SpecEntity  one session object under every sequence of its methods;   *)
(*   Spec        one socket connection served by the explicit-start        *)
(*               controller, with its provider and the store, under the    *)
(*               event loop's interleaving of handlers;                    *)
(*   SpecAuto    the same, served by the auto-initialization controller;   *)
(*   SpecProvider  one SonioxProvider under every sequence of calls of     *)
(*               connect, sendAudio and close and of WebSocket events.     *)
(***************************************************************************)
EXTENDS Naturals, Integers, Sequences, FiniteSets, TLC

(* ------------------------------ bounds --------------------------------- *)

\* The wall clock (new Date()) takes the values 1..MaxClock.
MaxClock == 3
\* Longest results sequence built in SpecEntity.
MaxResults == 3
\* Inbound socket events (start, chunk, stop, disconnect) per connection.
MaxEvents == 3
\* Inbound socket events (chunk, disconnect) per connection in SpecAuto, where
\* every chunk runs a whole Start before its ProcessChunk.
MaxAutoEvents == 2
\* Frames the upstream provider delivers over all transports.
MaxMsgs == 1
\* Frames the upstream provider delivers in SpecProvider.
MaxProviderMsgs == 2
\* Calls of connect, sendAudio and close made on one provider in
\* SpecProvider.
MaxCalls == 3
\* Handlers of the connection that have begun and not yet finished.
MaxInFlight == 2

(* --------------------------- value domains ----------------------------- *)

\* SessionStatus (enum)
PENDING == "pending"
ACTIVE == "active"
STOPPING == "stopping"
STOPPED == "stopped"
ERROR == "error"

SessionStatus == {PENDING, ACTIVE, STOPPING, STOPPED, ERROR}

\* endedAt?: Date -- the value of an unset optional date
NoDate == 0
\* errorMessage?: string -- the value of an unset optional string
NoMessage == "<undefined>"

\* socket.id of the connection under study, and of an unrelated connection
\* whose session an earlier run left in the (durable) store.
SocketA == "A"
SocketB == "B"

\* Texts are sequences of characters, so that joining is computed.
Hello == <<"h", "e", "l", "l", "o">>
Hi == <<"h", "i">>
EmptyText == << >>

\* ITranscriptionToken (text; confidence and timings play no part in any branch)
Token(text) == [text |-> text]

TokenInputs == {Token(Hello), Token(Hi), Token(EmptyText)}

ErrorInputs == {"WebSocket error", "provider error"}

(* ------------------------- TranscriptionSession ------------------------- *)

\* new TranscriptionSession(id, socketId, audioConfig, startedAt)
NewSession(id, socketId, startedAt) ==
    [id |-> id, socketId |-> socketId, status |-> PENDING,
     startedAt |-> startedAt, endedAt |-> NoDate,
     results |-> << >>, errorMessage |-> NoMessage]

\* A method call's outcome: whether it threw, and the object afterwards.
Returned(s) == [threw |-> FALSE, s |-> s]
Threw(s) == [threw |-> TRUE, s |-> s]

activate_anyStatus(s) ==
    Returned([s EXCEPT !.status = ACTIVE])

activate(s) ==
    IF s.status # PENDING
    THEN Threw(s)
    ELSE Returned([s EXCEPT !.status = ACTIVE])

addResult_unguarded(s, token) ==
    Returned([s EXCEPT !.results = Append(@, token)])

addResult(s, token) ==
    IF s.status # ACTIVE
    THEN Threw(s)
    ELSE Returned([s EXCEPT !.results = Append(@, token)])

markForStopping_anyStatus(s) == [s EXCEPT !.status = STOPPING]

markForStopping(s) ==
    IF s.status = ACTIVE THEN [s EXCEPT !.status = STOPPING] ELSE s

markStopped_noEndedAt(s, date) ==
    [s EXCEPT !.status = STOPPED]

markStopped(s, date) ==
    [s EXCEPT !.status = STOPPED, !.endedAt = date]

markError(s, message, date) ==
    [s EXCEPT !.status = ERROR, !.errorMessage = message, !.endedAt = date]

\* Array.prototype.join(" ") over the token texts
RECURSIVE JoinWithSpace(_)
JoinWithSpace(texts) ==
    IF Len(texts) = 0 THEN << >>
    ELSE IF Len(texts) = 1 THEN texts[1]
    ELSE texts[1] \o <<" ">> \o JoinWithSpace(Tail(texts))

getTranscribedText_reversed(s) ==
    JoinWithSpace([i \in 1..Len(s.results) |->
                      s.results[Len(s.results) + 1 - i].text])

getTranscribedText(s) ==
    JoinWithSpace([i \in 1..Len(s.results) |-> s.results[i].text])

isActive_anyStatus(s) == TRUE

isActive(s) == s.status = ACTIVE

(* -------------------- DrizzleTranscriptionRepository -------------------- *)

\* An optional value: << >> when absent, <<x>> when present.
None == << >>
Some(x) == <<x>>

\* save(): the values of the inserted row, read from the session when save
\* is called
InsertValues(s) ==
    [id |-> s.id, socketId |-> s.socketId, status |-> s.status,
     transcribedText |-> getTranscribedText(s), results |-> s.results,
     errorMessage |-> s.errorMessage, startedAt |-> s.startedAt,
     endedAt |-> s.endedAt]

\* db.insert(transcriptionSession).values(row)
save(rows, row) == rows \cup {row}

update_deletesRow(rows, v) == {r \in rows : r.id # v.id}

\* db.update(transcriptionSession).set({...}).where(eq(id, session.id)); the
\* argument is the row image of the session when update is called
update(rows, v) ==
    {IF r.id = v.id
     THEN [r EXCEPT !.status = v.status,
                    !.transcribedText = v.transcribedText,
                    !.results = v.results,
                    !.errorMessage = v.errorMessage,
                    !.endedAt = v.endedAt]
     ELSE r : r \in rows}

findBySocketId_anySocket(rows, socketId) == rows

\* select().where(eq(socketId, ...)).limit(1): with no ORDER BY the database
\* may return any one of the matching rows; this is the set it chooses from
findBySocketId(rows, socketId) ==
    {r \in rows : r.socketId = socketId}

mapToEntity(record) ==
    [id |-> record.id, socketId |-> record.socketId,
     status |-> record.status, startedAt |-> record.startedAt,
     endedAt |-> record.endedAt, results |-> record.results,
     errorMessage |-> record.errorMessage]

\* A session that an unrelated connection started in an earlier run of the
\* process: the store is durable and shared.
ForeignRow ==
    InsertValues([NewSession(0, SocketB, 1) EXCEPT !.status = ACTIVE])

(* -------------------------- ws.WebSocket ------------------------------- *)

CONNECTING == "CONNECTING"
OPEN == "OPEN"
CLOSING == "CLOSING"
CLOSED == "CLOSED"

\* A WebSocket constructed by connect(), with the closure variables
\* (resolved, hasError) of that connect() call, the pending sendConfig retry
\* timer, and the frames written to it.
NewTransport(h) ==
    [readyState |-> CONNECTING, resolved |-> FALSE, hasError |-> FALSE,
     retry |-> FALSE, sent |-> << >>, starter |-> h]

ConfigFrame == [k |-> "config", n |-> 0]
EndOfStreamFrame == [k |-> "eos", n |-> 0]
AudioFrame(n) == [k |-> "audio", n |-> n]

\* Inbound frames. text: typeof data === "string"; json: JSON.parse succeeds;
\* error_code / tokens: the fields of the parsed response that are present.
Frame(text, json, error_code, tokens) ==
    [text |-> text, json |-> json, error_code |-> error_code, tokens |-> tokens]

HelloResult == [tokens |-> <<Token(Hello)>>, is_final |-> TRUE]

ResultFrame == Frame(TRUE, TRUE, FALSE, Some(HelloResult.tokens))
ErrorFrame == Frame(TRUE, TRUE, TRUE, None)
ErrorWithTokensFrame == Frame(TRUE, TRUE, TRUE, Some(HelloResult.tokens))
MalformedFrame == Frame(TRUE, FALSE, FALSE, None)
BinaryFrame == Frame(FALSE, FALSE, FALSE, None)

\* The frames the upstream provider sends in Spec: a recognition result and
\* an error response.
FrameInputs == {ResultFrame, ErrorFrame}

\* The frames the upstream provider sends in SpecProvider: those, an error
\* response that also carries tokens, text that is not JSON, and data that
\* is not delivered as a string.
ProviderFrameInputs ==
    {ResultFrame, ErrorFrame, ErrorWithTokensFrame, MalformedFrame,
     BinaryFrame}

(* ----------------------------- audio data ------------------------------ *)

\* The payload of an audio_chunk event: undefined, or a Uint8Array.
Chunk(defined, bytes) == [defined |-> defined, bytes |-> bytes]

ChunkInputs ==
    {Chunk(FALSE, << >>), Chunk(TRUE, << >>), Chunk(TRUE, <<1, 2>>)}

IsEmptyChunk_lengthOnly(audioData) ==
    audioData.defined /\ Len(audioData.bytes) = 0

\* !audioData || audioData.length === 0
IsEmptyChunk(audioData) ==
    ~audioData.defined \/ Len(audioData.bytes) = 0

(* ------------------------------- state --------------------------------- *)

VARIABLES
    now,            \* the wall clock read by new Date()
    ent,            \* SpecEntity: the session object
    entCall,        \* SpecEntity: the last method call and whether it threw
    entActivations, \* SpecEntity: how many activate() calls returned normally
    variant,        \* which controller is wired to the socket
    store,          \* rows of the transcription_session table
    sessions,       \* session objects created by StartTranscription, by id
    ws,             \* SonioxProvider.ws: 0 (null) or an index of transports
    transports,     \* every WebSocket the provider has constructed
    isConnectedStatus, \* SonioxProvider.isConnectedStatus
    callbacks,      \* resultCallback/errorCallback: 0 (null) or the id of the
                    \* session the registered closures belong to
    handlers,       \* one record per inbound socket event, in arrival order
    socketOut,      \* events emitted on the client socket, each with the handler
                    \* that emitted it (their order is not kept)
    disconnected,   \* the socket's disconnect event has fired
    received,       \* frames delivered by the upstream provider so far
    resultCalls,    \* payloads passed to the registered result callback, each
                    \* with how many socket events had arrived and how many
                    \* of their handlers had finished by then
    errorCalls      \* how many times the registered error callback was called

entityVars == <<ent, entCall, entActivations>>
systemVars == <<variant, store, sessions, ws, transports, isConnectedStatus,
                callbacks, handlers, socketOut, disconnected, received,
                resultCalls, errorCalls>>
vars == <<now, entityVars, systemVars>>

\* new Date() in SpecEntity: the clock may have advanced since it was last
\* read.
ClockReads == {t \in {now, now + 1} : t <= MaxClock}

(* ---------------- the system as one value, and its handlers ------------- *)

\* The mutable objects a synchronous run of code may touch. Each function
\* below maps this value to the value after the code has run to its next
\* await (or to its end).
World ==
    [store |-> store, sessions |-> sessions, ws |-> ws,
     transports |-> transports, isConnectedStatus |-> isConnectedStatus,
     callbacks |-> callbacks, handlers |-> handlers,
     socketOut |-> socketOut, resultCalls |-> resultCalls,
     errorCalls |-> errorCalls]

Commit(w) ==
    /\ store' = w.store
    /\ sessions' = w.sessions
    /\ ws' = w.ws
    /\ transports' = w.transports
    /\ isConnectedStatus' = w.isConnectedStatus
    /\ callbacks' = w.callbacks
    /\ handlers' = w.handlers
    /\ socketOut' = w.socketOut
    /\ resultCalls' = w.resultCalls
    /\ errorCalls' = w.errorCalls

\* One invocation of a socket event handler (an async function): where it is
\* suspended (pc), its locals, and what its use cases did.
\*   sid, tr   session and WebSocket created by its StartTranscription
\*   found     row returned by findBySocketId
\*   local     session object built by mapToEntity
\*   values    row image handed to save() or update()
\*   start, chunk, stop   none | running | returned | threw, per use case
\*   cause     what the use case that threw had caught
\*   ret       the session a use case returned, as it was on return
\*   ack       the acknowledgement callback's argument: none | ok | error
NewHandler(kind, data) ==
    [kind |-> kind, pc |-> "new", data |-> data, sid |-> 0, tr |-> 0,
     found |-> None, local |-> None, values |-> None,
     start |-> "none", chunk |-> "none", stop |-> "none",
     cause |-> "none", sentAudio |-> FALSE, ret |-> None, ack |-> "none"]

NoChunk == Chunk(FALSE, << >>)

Arrive(w, kind, data) ==
    [w EXCEPT !.handlers = Append(@, NewHandler(kind, data))]

\* socket.emit(ev, ...) from handler h
Emit(w, h, ev) ==
    [w EXCEPT !.socketOut = @ \cup {[ev |-> ev, h |-> h]}]

Throw_disconnectEmits(w, h, useCase, cause) ==
    Emit([w EXCEPT !.handlers[h].pc = "done",
                   !.handlers[h][useCase] = "threw",
                   !.handlers[h].cause = cause,
                   !.handlers[h].ack = "error"],
         h, "transcription_error")

\* A use case's catch block wraps and rethrows what it caught; the
\* controller's catch block then reports it: the explicit-start controller
\* acknowledges with the error and emits transcription_error, the
\* auto-initialization controller only acknowledges, and the disconnect
\* handler of both only logs.
Throw(w, h, useCase, cause) ==
    LET kind == w.handlers[h].kind
        w1 == [w EXCEPT !.handlers[h].pc = "done",
                        !.handlers[h][useCase] = "threw",
                        !.handlers[h].cause = cause,
                        !.handlers[h].ack =
                            IF kind = "disconnect" THEN "none" ELSE "error"]
    IN  IF variant = "explicit" /\ kind # "disconnect"
        THEN Emit(w1, h, "transcription_error")
        ELSE w1

(* --------------------------- SonioxProvider ----------------------------- *)

\* this.errorCallback(error), the closure registered by StartTranscription:
\* (error) => { session.markError(error.error) }
errorCallback(w, error, date) ==
    IF w.callbacks = 0 THEN w
    ELSE [w EXCEPT !.sessions[w.callbacks] = markError(@, error, date),
                   !.errorCalls = @ + 1]

\* this.resultCallback(result), the closure registered by StartTranscription:
\* (result) => { }
resultCallback(w, result) ==
    IF w.callbacks = 0 THEN w
    ELSE [w EXCEPT !.resultCalls = Append(@,
             [result |-> result,
              arrived |-> Len(w.handlers),
              finished |-> Cardinality({h \in 1..Len(w.handlers) :
                                           w.handlers[h].pc = "done"})])]

\* connect(onResult, onError) up to the promise's construction: the callbacks
\* are replaced and a new WebSocket is constructed and stored in this.ws
connect(w, h, sid) ==
    [w EXCEPT !.callbacks = sid,
              !.transports = Append(@, NewTransport(h)),
              !.ws = Len(w.transports) + 1,
              !.handlers[h].tr = Len(w.transports) + 1]

\* ws.send(data) on this.ws. It throws while CONNECTING; once CLOSING or
\* CLOSED the library either throws or drops the data, by its version.
wsSend(w, frame, throwsAfterClose) ==
    LET state == w.transports[w.ws].readyState IN
    IF state = OPEN
    THEN [threw |-> FALSE, w |-> [w EXCEPT !.transports[w.ws].sent = Append(@, frame)]]
    ELSE IF state = CONNECTING \/ throwsAfterClose
    THEN [threw |-> TRUE, w |-> w]
    ELSE [threw |-> FALSE, w |-> w]

sendAudio(w, n, date, throwsAfterClose) ==
    IF w.ws = 0 \/ ~w.isConnectedStatus
    THEN errorCallback(w, "Soniox connection not established", date)
    ELSE LET r == wsSend(w, AudioFrame(n), throwsAfterClose) IN
         IF r.threw
         THEN errorCallback(r.w, "Failed to send audio to Soniox", date)
         ELSE r.w

close_pendingWhenSendThrows(w, h, throwsAfterClose) ==
    IF w.ws = 0
    THEN [w EXCEPT !.handlers[h].pc = "closed"]
    ELSE LET r == wsSend(w, EndOfStreamFrame, throwsAfterClose) IN
         IF r.threw
         THEN [r.w EXCEPT !.isConnectedStatus = FALSE,
                          !.handlers[h].pc = "pending"]
         ELSE [r.w EXCEPT !.handlers[h].pc = "drain"]

close_unregistersCallbacks(w, h, throwsAfterClose) ==
    IF w.ws = 0
    THEN [w EXCEPT !.handlers[h].pc = "closed"]
    ELSE LET r == wsSend(w, EndOfStreamFrame, throwsAfterClose) IN
         IF r.threw
         THEN [r.w EXCEPT !.isConnectedStatus = FALSE,
                          !.handlers[h].pc = "closed"]
         ELSE [r.w EXCEPT !.handlers[h].pc = "drain", !.callbacks = 0]

\* close() up to the return of its promise: resolved at once when there is
\* no WebSocket or sending the end-of-stream frame throws ("closed"), and
\* otherwise left to the 500 ms timer ("drain")
close(w, h, throwsAfterClose) ==
    IF w.ws = 0
    THEN [w EXCEPT !.handlers[h].pc = "closed"]
    ELSE LET r == wsSend(w, EndOfStreamFrame, throwsAfterClose) IN
         IF r.threw
         THEN [r.w EXCEPT !.isConnectedStatus = FALSE,
                          !.handlers[h].pc = "closed"]
         ELSE [r.w EXCEPT !.handlers[h].pc = "drain"]

\* close()'s timer, 500 ms after the end-of-stream frame
closeTimeout(w) ==
    LET w1 == IF w.ws # 0 /\ w.transports[w.ws].readyState = OPEN
              THEN [w EXCEPT !.transports[w.ws].readyState = CLOSING]
              ELSE w
    IN  [w1 EXCEPT !.isConnectedStatus = FALSE]

handleMessage_errorThenTokens(w, data, date) ==
    IF ~data.text THEN w
    ELSE IF ~data.json
    THEN errorCallback(w, "Failed to parse transcription response", date)
    ELSE LET w1 == IF data.error_code
                   THEN errorCallback(w, "provider error", date)
                   ELSE w
         IN  IF data.tokens # None
             THEN resultCallback(w1, [tokens |-> data.tokens[1],
                                      is_final |-> TRUE])
             ELSE w1

handleMessage_closesOnMalformed(w, data, date) ==
    IF ~data.text THEN w
    ELSE IF ~data.json
    THEN LET w1 == errorCallback(w, "Failed to parse transcription response",
                                 date)
         IN  [w1 EXCEPT !.isConnectedStatus = FALSE, !.callbacks = 0]
    ELSE IF data.error_code
    THEN errorCallback(w, "provider error", date)
    ELSE IF data.tokens # None
    THEN resultCallback(w, [tokens |-> data.tokens[1], is_final |-> TRUE])
    ELSE w

handleMessage(w, data, date) ==
    IF ~data.text THEN w
    ELSE IF ~data.json
    THEN errorCallback(w, "Failed to parse transcription response", date)
    ELSE IF data.error_code
    THEN errorCallback(w, "provider error", date)
    ELSE IF data.tokens # None
    THEN resultCallback(w, [tokens |-> data.tokens[1], is_final |-> TRUE])
    ELSE w

(* ----------------- ProcessAudioChunk.execute(socketId, audioData) -------- *)

\* up to the await of findBySocketId. The event's payload enters the state
\* here, where the code first reads it.
ProcessAudioChunk_execute(w, h, audioData) ==
    LET w1 == [w EXCEPT !.handlers[h].chunk = "running",
                        !.handlers[h].data = audioData]
    IN  IF IsEmptyChunk(audioData)
        THEN Throw(w1, h, "chunk", "EmptyAudioChunk")
        ELSE [w1 EXCEPT !.handlers[h].pc = "find_wait"]

ProcessAudioChunk_afterFind_persists(w, h, date, throwsAfterClose) ==
    IF w.handlers[h].found = None
    THEN Throw(w, h, "chunk", "SessionNotFound")
    ELSE LET session == mapToEntity(w.handlers[h].found[1])
             w1 == [w EXCEPT !.handlers[h].local = Some(session)]
         IN  IF ~isActive(session)
             THEN Throw(w1, h, "chunk", "InvalidStateTransition")
             ELSE LET w2 == sendAudio(w1, h, date, throwsAfterClose) IN
                  [w2 EXCEPT !.handlers[h].sentAudio = TRUE,
                             !.handlers[h].chunk = "returned",
                             !.handlers[h].ack = "ok",
                             !.handlers[h].pc = "done",
                             !.store = update(@, InsertValues(
                                 [session EXCEPT !.endedAt = date]))]

\* from the row findBySocketId resolved with, to the end of the handler
ProcessAudioChunk_afterFind(w, h, date, throwsAfterClose) ==
    IF w.handlers[h].found = None
    THEN Throw(w, h, "chunk", "SessionNotFound")
    ELSE LET session == mapToEntity(w.handlers[h].found[1])
             w1 == [w EXCEPT !.handlers[h].local = Some(session)]
         IN  IF ~isActive(session)
             THEN Throw(w1, h, "chunk", "InvalidStateTransition")
             ELSE LET w2 == sendAudio(w1, h, date, throwsAfterClose) IN
                  [w2 EXCEPT !.handlers[h].sentAudio = TRUE,
                             !.handlers[h].chunk = "returned",
                             !.handlers[h].ack = "ok",
                             !.handlers[h].pc = "done"]

(* -------------------- StartTranscription.execute(socketId) -------------- *)

\* up to the await of provider.connect
StartTranscription_execute(w, h, date) ==
    LET id == Len(w.sessions) + 1
        w1 == [w EXCEPT !.sessions = Append(@, NewSession(id, SocketA, date)),
                        !.handlers[h].sid = id,
                        !.handlers[h].start = "running",
                        !.handlers[h].pc = "connect_wait"]
    IN  connect(w1, h, id)

StartTranscription_afterConnect_saveFirst(w, h) ==
    LET sid == w.handlers[h].sid
        a == activate(w.sessions[sid])
        w1 == [w EXCEPT !.store = save(@, InsertValues(w.sessions[sid]))]
    IN  IF a.threw
        THEN Throw(w1, h, "start", "activate")
        ELSE [w1 EXCEPT !.sessions[sid] = a.s,
                        !.handlers[h].values = Some(InsertValues(a.s)),
                        !.handlers[h].pc = "save_wait"]

\* connect resolved: activate, then call save (which reads the session) and
\* await it
StartTranscription_afterConnect(w, h) ==
    LET sid == w.handlers[h].sid
        a == activate(w.sessions[sid])
    IN  IF a.threw
        THEN Throw(w, h, "start", "activate")
        ELSE [w EXCEPT !.sessions[sid] = a.s,
                       !.handlers[h].values = Some(InsertValues(a.s)),
                       !.handlers[h].pc = "save_wait"]

\* save resolved: execute returns the session object. The explicit-start
\* controller acknowledges and emits transcription_started; the
\* auto-initialization controller goes on to ProcessAudioChunk.execute with
\* the event's payload.
StartTranscription_afterSave(w, h, audioData) ==
    LET w1 == [w EXCEPT !.handlers[h].start = "returned",
                        !.handlers[h].ret = Some(w.sessions[w.handlers[h].sid])]
    IN  IF w.handlers[h].kind = "start"
        THEN Emit([w1 EXCEPT !.handlers[h].ack = "ok",
                             !.handlers[h].pc = "done"],
                  h, "transcription_started")
        ELSE ProcessAudioChunk_execute(w1, h, audioData)

(* --------------------- StopTranscription.execute(socketId) -------------- *)

StopTranscription_afterClose_unmarked(w, h, date) ==
    LET session == w.handlers[h].local[1] IN
    [w EXCEPT !.handlers[h].values = Some(InsertValues(session)),
              !.handlers[h].pc = "update_wait"]

\* close() resolved: markStopped, then call update (which reads the session)
\* and await it
StopTranscription_afterClose(w, h, date) ==
    LET session == markStopped(w.handlers[h].local[1], date) IN
    [w EXCEPT !.handlers[h].local = Some(session),
              !.handlers[h].values = Some(InsertValues(session)),
              !.handlers[h].pc = "update_wait"]

StopTranscription_afterFind_stopFirst(w, h, date, throwsAfterClose) ==
    IF w.handlers[h].found = None
    THEN Throw(w, h, "stop", "SessionNotFound")
    ELSE LET session == markForStopping(mapToEntity(w.handlers[h].found[1]))
         IN  StopTranscription_afterClose(
                 [w EXCEPT !.handlers[h].local = Some(session)], h, date)

\* from the row findBySocketId resolved with, through markForStopping and
\* provider.close() up to its timer (or, when close resolves at once, up to
\* the await of update)
StopTranscription_afterFind(w, h, date, throwsAfterClose) ==
    IF w.handlers[h].found = None
    THEN Throw(w, h, "stop", "SessionNotFound")
    ELSE LET session == markForStopping(mapToEntity(w.handlers[h].found[1]))
             w1 == close([w EXCEPT !.handlers[h].local = Some(session)],
                         h, throwsAfterClose)
         IN  IF w1.handlers[h].pc = "closed"
             THEN StopTranscription_afterClose(w1, h, date)
             ELSE w1

\* update resolved: execute returns the session object; the stop handler
\* acknowledges and emits transcription_stopped, the disconnect handler logs.
StopTranscription_afterUpdate(w, h) ==
    LET w1 == [w EXCEPT !.handlers[h].stop = "returned",
                        !.handlers[h].ret = w.handlers[h].local,
                        !.handlers[h].pc = "done"]
    IN  IF w.handlers[h].kind = "stop"
        THEN Emit([w1 EXCEPT !.handlers[h].ack = "ok"], h, "transcription_stopped")
        ELSE w1

(* ------------------- WebSocket event handlers of connect ---------------- *)

\* resolve(): the awaiting StartTranscription.execute continues (or, when
\* the provider is called directly, the caller's promise is resolved)
resolveConnect(w, t) ==
    LET h == w.transports[t].starter
        w1 == [w EXCEPT !.transports[t].resolved = TRUE]
    IN  IF w.handlers[h].kind = "connect"
        THEN [w1 EXCEPT !.handlers[h].pc = "resolved"]
        ELSE StartTranscription_afterConnect(w1, h)

\* reject(error): the awaiting StartTranscription.execute throws (or the
\* direct caller's promise is rejected)
rejectConnect(w, t) ==
    LET h == w.transports[t].starter
        w1 == [w EXCEPT !.transports[t].hasError = TRUE]
    IN  IF w.handlers[h].kind = "connect"
        THEN [w1 EXCEPT !.handlers[h].pc = "rejected"]
        ELSE Throw(w1, h, "start", "connect")

sendConfig_resolvesUnsent(w, t) ==
    IF w.ws # 0 /\ w.transports[w.ws].readyState = OPEN
    THEN LET w1 == [w EXCEPT !.transports[t].retry = FALSE]
         IN  IF ~w.transports[t].resolved /\ ~w.transports[t].hasError
             THEN resolveConnect(w1, t)
             ELSE w1
    ELSE [w EXCEPT !.transports[t].retry = TRUE]

\* sendConfig of the connect() call that constructed transport t: it tests
\* and writes this.ws, which a later connect() may have replaced
sendConfig(w, t) ==
    IF w.ws # 0 /\ w.transports[w.ws].readyState = OPEN
    THEN LET w1 == [w EXCEPT !.transports[w.ws].sent = Append(@, ConfigFrame),
                             !.transports[t].retry = FALSE]
         IN  IF ~w.transports[t].resolved /\ ~w.transports[t].hasError
             THEN resolveConnect(w1, t)
             ELSE w1
    ELSE [w EXCEPT !.transports[t].retry = TRUE]

onOpen(w, t) ==
    sendConfig([w EXCEPT !.transports[t].readyState = OPEN,
                         !.isConnectedStatus = TRUE], t)

onClose(w, t) ==
    [w EXCEPT !.transports[t].readyState = CLOSED,
              !.isConnectedStatus = FALSE]

\* the error event, which the close event follows
onError(w, t, date) ==
    LET w1 == errorCallback([w EXCEPT !.isConnectedStatus = FALSE],
                            "WebSocket error", date)
        w2 == IF ~w.transports[t].resolved /\ ~w.transports[t].hasError
              THEN rejectConnect(w1, t)
              ELSE w1
    IN  onClose(w2, t)

(* ----------------------------- SpecEntity ------------------------------ *)

NoCall == [method |-> "constructor", threw |-> FALSE]

\* The system before the connection's first event.
Idle ==
    /\ sessions = << >>
    /\ ws = 0
    /\ transports = << >>
    /\ isConnectedStatus = FALSE
    /\ callbacks = 0
    /\ handlers = << >>
    /\ socketOut = {}
    /\ disconnected = FALSE
    /\ received = << >>
    /\ resultCalls = << >>
    /\ errorCalls = 0

InitEntity ==
    /\ now = 1
    /\ ent = NewSession(1, SocketA, 1)
    /\ entCall = NoCall
    /\ entActivations = 0
    /\ variant = "explicit"
    /\ store = {}
    /\ Idle

EntActivate ==
    LET r == activate(ent) IN
    /\ ent' = r.s
    /\ entCall' = [method |-> "activate", threw |-> r.threw]
    /\ entActivations' = IF r.threw THEN entActivations ELSE entActivations + 1
    /\ UNCHANGED <<now, systemVars>>

EntAddResult ==
    \E token \in TokenInputs :
        LET r == addResult(ent, token) IN
        /\ (r.threw \/ Len(ent.results) < MaxResults)
        /\ ent' = r.s
        /\ entCall' = [method |-> "addResult", threw |-> r.threw]
        /\ UNCHANGED <<now, entActivations, systemVars>>

EntMarkForStopping ==
    /\ ent' = markForStopping(ent)
    /\ entCall' = [method |-> "markForStopping", threw |-> FALSE]
    /\ UNCHANGED <<now, entActivations, systemVars>>

EntMarkStopped ==
    \E date \in ClockReads :
        /\ now' = date
        /\ ent' = markStopped(ent, date)
        /\ entCall' = [method |-> "markStopped", threw |-> FALSE]
        /\ UNCHANGED <<entActivations, systemVars>>

EntMarkError ==
    \E date \in ClockReads, message \in ErrorInputs :
        /\ now' = date
        /\ ent' = markError(ent, message, date)
        /\ entCall' = [method |-> "markError", threw |-> FALSE]
        /\ UNCHANGED <<entActivations, systemVars>>

NextEntity ==
    \/ EntActivate
    \/ EntAddResult
    \/ EntMarkForStopping
    \/ EntMarkStopped
    \/ EntMarkError

SpecEntity == InitEntity /\ [][NextEntity]_vars

(* -------------------------------- Spec --------------------------------- *)

\* A connection served by the given controller, before its first event; the
\* store holds the session of an unrelated connection.
Connected(controller) ==
    /\ now = 1
    /\ ent = NewSession(1, SocketA, 1)
    /\ entCall = NoCall
    /\ entActivations = 0
    /\ variant = controller
    /\ store = {ForeignRow}
    /\ Idle

\* Spec: the explicit-start controller (transcription_start, audio_chunk,
\* transcription_stop, disconnect).
Init == Connected("explicit")

\* SpecAuto: the auto-initialization controller (audio_chunk, disconnect).
InitAuto == Connected("auto")

Handlers == 1..Len(handlers)
Transports == 1..Len(transports)

InFlight == {h \in Handlers : handlers[h].pc # "done"}

CanArrive ==
    /\ ~disconnected
    /\ Len(handlers) < (IF variant = "auto" THEN MaxAutoEvents ELSE MaxEvents)
    /\ Cardinality(InFlight) < MaxInFlight

\* transcription_start (explicit-start controller)
EvStart ==
    /\ variant = "explicit"
    /\ CanArrive
    /\ Commit(StartTranscription_execute(
                  Arrive(World, "start", NoChunk), Len(handlers) + 1, now))
    /\ UNCHANGED <<now, entityVars, variant, disconnected, received>>

\* audio_chunk: the auto-initialization controller runs
\* initializeTranscription first, the explicit-start controller goes straight
\* to ProcessAudioChunk.execute
EvChunk ==
    /\ CanArrive
    /\ LET w == Arrive(World, "chunk", NoChunk)
           h == Len(handlers) + 1
       IN  IF variant = "auto"
           THEN Commit(StartTranscription_execute(w, h, now))
           ELSE \E audioData \in ChunkInputs :
                    Commit(ProcessAudioChunk_execute(w, h, audioData))
    /\ UNCHANGED <<now, entityVars, variant, disconnected, received>>

StopArrives(kind) ==
    LET h == Len(handlers) + 1
        w == Arrive(World, kind, NoChunk)
    IN  Commit([w EXCEPT !.handlers[h].stop = "running",
                         !.handlers[h].pc = "find_wait"])

\* transcription_stop (explicit-start controller)
EvStop ==
    /\ variant = "explicit"
    /\ CanArrive
    /\ StopArrives("stop")
    /\ UNCHANGED <<now, entityVars, variant, disconnected, received>>

\* disconnect (both controllers)
EvDisconnect ==
    /\ CanArrive
    /\ StopArrives("disconnect")
    /\ disconnected' = TRUE
    /\ UNCHANGED <<now, entityVars, variant, received>>

\* the upstream connection is established
WsOpen(t) ==
    /\ transports[t].readyState = CONNECTING
    /\ Commit(onOpen(World, t))
    /\ UNCHANGED <<now, entityVars, variant, disconnected, received>>

\* the upstream connection fails, while connecting or later
WsError(t) ==
    /\ transports[t].readyState \in {CONNECTING, OPEN, CLOSING}
    /\ Commit(onError(World, t, now))
    /\ UNCHANGED <<now, entityVars, variant, disconnected, received>>

\* the upstream connection is closed (by the peer, or completing ws.close())
WsClose(t) ==
    /\ transports[t].readyState \in {OPEN, CLOSING}
    /\ Commit(onClose(World, t))
    /\ UNCHANGED <<now, entityVars, variant, disconnected, received>>

\* The frames upstream may deliver, and how many of them: Spec and SpecAuto
\* take results and error responses, SpecProvider every kind of frame.
Frames == IF variant = "provider" THEN ProviderFrameInputs ELSE FrameInputs

MsgLimit == IF variant = "provider" THEN MaxProviderMsgs ELSE MaxMsgs

\* a frame arrives from upstream
WsMessage(t) ==
    /\ transports[t].readyState \in {OPEN, CLOSING}
    /\ Len(received) < MsgLimit
    /\ \E data \in Frames :
        /\ received' = Append(received, data)
        /\ Commit(handleMessage(World, data, now))
    /\ UNCHANGED <<now, entityVars, variant, disconnected>>

\* setTimeout(sendConfig, 50) fires
ConfigRetry(t) ==
    /\ transports[t].retry
    /\ Commit(sendConfig(World, t))
    /\ UNCHANGED <<now, entityVars, variant, disconnected, received>>

\* the insert issued by save() is executed
DbSave(h) ==
    /\ handlers[h].pc = "save_wait"
    /\ Commit([World EXCEPT !.store = save(@, handlers[h].values[1]),
                            !.handlers[h].pc = "save_done"])
    /\ UNCHANGED <<now, entityVars, variant, disconnected, received>>

\* the select issued by findBySocketId is executed
DbFind(h) ==
    /\ handlers[h].pc = "find_wait"
    /\ LET rows == findBySocketId(store, SocketA) IN
       \E found \in IF rows = {} THEN {None} ELSE {Some(r) : r \in rows} :
           Commit([World EXCEPT !.handlers[h].found = found,
                                !.handlers[h].pc = "find_done"])
    /\ UNCHANGED <<now, entityVars, variant, disconnected, received>>

\* the update issued by update() is executed
DbUpdate(h) ==
    /\ handlers[h].pc = "update_wait"
    /\ Commit([World EXCEPT !.store = update(@, handlers[h].values[1]),
                            !.handlers[h].pc = "update_done"])
    /\ UNCHANGED <<now, entityVars, variant, disconnected, received>>

\* a database call fails: the repository throws and the awaiting use case
\* rethrows
DbFails(h) ==
    /\ handlers[h].pc \in {"save_wait", "find_wait", "update_wait"}
    /\ Commit(Throw(World, h,
                    CASE handlers[h].pc = "save_wait" -> "start"
                      [] handlers[h].pc = "update_wait" -> "stop"
                      [] OTHER -> IF handlers[h].kind = "chunk"
                                  THEN "chunk" ELSE "stop",
                    "store"))
    /\ UNCHANGED <<now, entityVars, variant, disconnected, received>>

\* StartTranscription.execute resumes after save
ResumeStart(h) ==
    /\ handlers[h].pc = "save_done"
    /\ \E audioData \in ChunkInputs :
        Commit(StartTranscription_afterSave(World, h, audioData))
    /\ UNCHANGED <<now, entityVars, variant, disconnected, received>>

\* ProcessAudioChunk.execute resumes after findBySocketId
ResumeProcess(h) ==
    /\ handlers[h].pc = "find_done"
    /\ handlers[h].kind = "chunk"
    /\ \E throwsAfterClose \in BOOLEAN :
        Commit(ProcessAudioChunk_afterFind(World, h, now, throwsAfterClose))
    /\ UNCHANGED <<now, entityVars, variant, disconnected, received>>

\* StopTranscription.execute resumes after findBySocketId
ResumeStop(h) ==
    /\ handlers[h].pc = "find_done"
    /\ handlers[h].kind \in {"stop", "disconnect"}
    /\ \E throwsAfterClose \in BOOLEAN :
        Commit(StopTranscription_afterFind(World, h, now, throwsAfterClose))
    /\ UNCHANGED <<now, entityVars, variant, disconnected, received>>

\* close()'s timer fires, 500 ms after it was set, and
\* StopTranscription.execute resumes. This is the one step of the system in
\* which the clock is seen to advance: every other run of code reads the
\* time of the last timer.
DrainTimeout(h) ==
    /\ handlers[h].pc = "drain"
    /\ now' = now + 1
    /\ Commit(StopTranscription_afterClose(closeTimeout(World), h, now + 1))
    /\ UNCHANGED <<entityVars, variant, disconnected, received>>

\* StopTranscription.execute resumes after update
ResumeStopped(h) ==
    /\ handlers[h].pc = "update_done"
    /\ Commit(StopTranscription_afterUpdate(World, h))
    /\ UNCHANGED <<now, entityVars, variant, disconnected, received>>

Next ==
    \/ EvStart
    \/ EvChunk
    \/ EvStop
    \/ EvDisconnect
    \/ \E t \in Transports : WsOpen(t)
    \/ \E t \in Transports : WsError(t)
    \/ \E t \in Transports : WsClose(t)
    \/ \E t \in Transports : WsMessage(t)
    \/ \E t \in Transports : ConfigRetry(t)
    \/ \E h \in Handlers : DbSave(h)
    \/ \E h \in Handlers : DbFind(h)
    \/ \E h \in Handlers : DbUpdate(h)
    \/ \E h \in Handlers : DbFails(h)
    \/ \E h \in Handlers : ResumeStart(h)
    \/ \E h \in Handlers : ResumeProcess(h)
    \/ \E h \in Handlers : ResumeStop(h)
    \/ \E h \in Handlers : DrainTimeout(h)
    \/ \E h \in Handlers : ResumeStopped(h)

Spec == Init /\ [][Next]_vars

NextAuto ==
    \/ EvChunk
    \/ EvDisconnect
    \/ \E t \in Transports : WsOpen(t)
    \/ \E t \in Transports : WsError(t)
    \/ \E t \in Transports : WsClose(t)
    \/ \E t \in Transports : WsMessage(t)
    \/ \E t \in Transports : ConfigRetry(t)
    \/ \E h \in Handlers : DbSave(h)
    \/ \E h \in Handlers : DbFind(h)
    \/ \E h \in Handlers : DbUpdate(h)
    \/ \E h \in Handlers : DbFails(h)
    \/ \E h \in Handlers : ResumeStart(h)
    \/ \E h \in Handlers : ResumeProcess(h)
    \/ \E h \in Handlers : ResumeStop(h)
    \/ \E h \in Handlers : DrainTimeout(h)
    \/ \E h \in Handlers : ResumeStopped(h)

SpecAuto == InitAuto /\ [][NextAuto]_vars

(* ----------------------------- SpecProvider ---------------------------- *)

\* One SonioxProvider called directly. Each call of connect, sendAudio or
\* close is a record of handlers; the onError closure the caller passes to
\* connect marks the caller's session, sessions[1].
InitProvider ==
    /\ now = 1
    /\ ent = NewSession(1, SocketA, 1)
    /\ entCall = NoCall
    /\ entActivations = 0
    /\ variant = "provider"
    /\ store = {}
    /\ sessions = <<NewSession(1, SocketA, 1)>>
    /\ ws = 0
    /\ transports = << >>
    /\ isConnectedStatus = FALSE
    /\ callbacks = 0
    /\ handlers = << >>
    /\ socketOut = {}
    /\ disconnected = FALSE
    /\ received = << >>
    /\ resultCalls = << >>
    /\ errorCalls = 0

\* connect(onResult, onError)
CallConnect ==
    /\ Len(handlers) < MaxCalls
    /\ LET h == Len(handlers) + 1
           w == Arrive(World, "connect", NoChunk)
       IN  Commit(connect([w EXCEPT !.handlers[h].pc = "connect_wait"], h, 1))
    /\ UNCHANGED <<now, entityVars, variant, disconnected, received>>

\* sendAudio(audioData)
CallSendAudio ==
    /\ Len(handlers) < MaxCalls
    /\ \E throwsAfterClose \in BOOLEAN :
        LET h == Len(handlers) + 1
            w == sendAudio(Arrive(World, "sendAudio", Chunk(TRUE, <<1, 2>>)),
                           h, now, throwsAfterClose)
        IN  Commit([w EXCEPT !.handlers[h].pc = "done"])
    /\ UNCHANGED <<now, entityVars, variant, disconnected, received>>

\* close()
CallClose ==
    /\ Len(handlers) < MaxCalls
    /\ \E throwsAfterClose \in BOOLEAN :
        Commit(close(Arrive(World, "close", NoChunk), Len(handlers) + 1,
                     throwsAfterClose))
    /\ UNCHANGED <<now, entityVars, variant, disconnected, received>>

\* the timer of close call h fires and resolves its promise
CloseTimer(h) ==
    /\ h \in Handlers
    /\ handlers[h].kind = "close"
    /\ handlers[h].pc = "drain"
    /\ now' = now + 1
    /\ Commit([closeTimeout(World) EXCEPT !.handlers[h].pc = "closed"])
    /\ UNCHANGED <<entityVars, variant, disconnected, received>>

NextProvider ==
    \/ CallConnect
    \/ CallSendAudio
    \/ CallClose
    \/ \E h \in Handlers : CloseTimer(h)
    \/ \E t \in Transports : WsOpen(t)
    \/ \E t \in Transports : WsError(t)
    \/ \E t \in Transports : WsClose(t)
    \/ \E t \in Transports : WsMessage(t)
    \/ \E t \in Transports : ConfigRetry(t)

\* A timer that was set fires: Node runs every due timer once the running
\* code has returned. Nothing is assumed of the upstream provider.
SpecProvider ==
    /\ InitProvider
    /\ [][NextProvider]_vars
    /\ \A h \in 1..MaxCalls : WF_vars(CloseTimer(h))

(* ------------------- claims about the session entity ------------------- *)

Terminal == {STOPPED, ERROR}

\* C1: in every reachable state of the session object, endedAt is set if and
\* only if status is STOPPED or ERROR.
C1_EndedAtIffTerminal ==
    (ent.endedAt # NoDate) <=> (ent.status \in Terminal)

C1_Witness ==
    /\ entCall.method = "markStopped"
    /\ ent.status = STOPPED
    /\ ent.endedAt # NoDate
    /\ Len(ent.results) > 0

\* C2: STOPPED and ERROR are terminal: no method call changes the status of
\* a session that is STOPPED or ERROR to a different value.
C2_TerminalIsFinal ==
    [][ent.status \in Terminal => ent'.status = ent.status]_vars

\* C3: activate() returns normally only from PENDING, then making the session
\* ACTIVE; every other call throws and leaves the object as it was; hence at
\* most one call per session returns normally.
C3_ActivateOnce ==
    /\ [](entActivations <= 1)
    /\ [][entCall'.method = "activate" =>
            IF ent.status = PENDING
            THEN /\ ~entCall'.threw
                 /\ ent' = [ent EXCEPT !.status = ACTIVE]
                 /\ entActivations' = entActivations + 1
            ELSE /\ entCall'.threw
                 /\ ent' = ent
                 /\ entActivations' = entActivations]_vars

C3_Witness ==
    /\ entActivations = 1
    /\ entCall = [method |-> "activate", threw |-> TRUE]
    /\ ent.status = ACTIVE

\* C4: addResult throws whenever status is not ACTIVE and leaves results
\* unchanged; results change only by an append made while ACTIVE.
C4_AddResultOnlyWhileActive ==
    [][/\ (entCall'.method = "addResult" /\ ent.status # ACTIVE) =>
            (entCall'.threw /\ ent' = ent)
       /\ ent.status # ACTIVE => ent'.results = ent.results
       /\ ent'.results # ent.results =>
            /\ ent.status = ACTIVE
            /\ Len(ent'.results) = Len(ent.results) + 1
            /\ SubSeq(ent'.results, 1, Len(ent.results)) = ent.results]_vars

C4_Witness ==
    /\ entCall = [method |-> "addResult", threw |-> TRUE]
    /\ ent.status = STOPPED
    /\ Len(ent.results) > 0

(* ------------------------ claims about the system ----------------------- *)

Rows(id) == {r \in store : r.id = id}

\* C5: after Start("A") has returned, ProcessChunk("A", non-empty bytes) has
\* returned, the provider has delivered one final result whose only token
\* is "hello", and then Stop("A") has returned, the session Stop returned is
\* STOPPED and its transcribed text is "hello".
C5_ScenarioTranscript ==
    ( /\ Len(handlers) = 3
      /\ handlers[1].kind = "start" /\ handlers[1].start = "returned"
      /\ handlers[2].kind = "chunk" /\ handlers[2].chunk = "returned"
      /\ ~IsEmptyChunk(handlers[2].data)
      /\ resultCalls = <<[result |-> HelloResult, arrived |-> 2, finished |-> 2]>>
      /\ errorCalls = 0
      /\ handlers[3].kind = "stop" /\ handlers[3].stop = "returned" )
    => ( /\ handlers[3].ret[1].id = handlers[1].sid
         /\ handlers[3].ret[1].status = STOPPED
         /\ getTranscribedText(handlers[3].ret[1]) = Hello )

\* Nothing is left to run: every handler has finished, every WebSocket is
\* closed and no sendConfig retry is pending.
Quiescent ==
    /\ \A h \in Handlers : handlers[h].pc = "done"
    /\ \A t \in Transports :
        transports[t].readyState = CLOSED /\ ~transports[t].retry

\* C6: every result the provider delivers to the result callback produces a
\* result event on the connection, and every error delivered to the error
\* callback an error event; stated of the states in which no code is left
\* to run, and satisfied by an event of that name from any emitter.
C6_CallbacksForwarded ==
    Quiescent =>
        /\ (resultCalls # << >> =>
                \E e \in socketOut : e.ev = "transcription_result")
        /\ (errorCalls > 0 =>
                \E e \in socketOut : e.ev = "transcription_error")

\* C7: whenever Start returns, the session it returns is ACTIVE and the store
\* holds a row of that session with status ACTIVE and the connection's id.
C7_StartReturnsActivePersisted ==
    [][\A h \in Handlers :
          (handlers[h].start # "returned" /\ handlers'[h].start = "returned") =>
              /\ handlers'[h].ret[1].status = ACTIVE
              /\ \E r \in store' :
                    /\ r.id = handlers[h].sid
                    /\ r.status = ACTIVE
                    /\ r.socketId = SocketA]_vars

\* C8: a Start that threw has left no row of its session in the store, and a
\* row of a session exists only once save was called with the activated
\* session (after connect resolved and activate returned).
C8_FailedStartLeavesNoRow ==
    \A h \in Handlers :
        handlers[h].sid # 0 =>
            /\ handlers[h].start = "threw" => Rows(handlers[h].sid) = {}
            /\ Rows(handlers[h].sid) # {} =>
                  /\ handlers[h].pc \notin {"connect_wait", "save_wait"}
                  /\ handlers[h].values # None
                  /\ handlers[h].values[1].status = ACTIVE

\* Start has failed in each of the three ways: connect rejected, activate
\* threw, save failed.
C8_Witness ==
    \E h1, h2, h3 \in Handlers :
        /\ handlers[h1].start = "threw" /\ handlers[h1].cause = "connect"
        /\ handlers[h2].start = "threw" /\ handlers[h2].cause = "activate"
        /\ handlers[h3].start = "threw" /\ handlers[h3].cause = "store"

\* C9: when Start throws, the WebSocket its connect opened is not open and,
\* if it is still the provider's, isConnected() is false.
C9_FailedStartLeavesProviderClosed ==
    [][\A h \in Handlers :
          (handlers[h].start # "threw" /\ handlers'[h].start = "threw") =>
              /\ transports'[handlers[h].tr].readyState # OPEN
              /\ (ws' = handlers[h].tr => ~isConnectedStatus')]_vars

AudioSentFor(h) ==
    \E t \in Transports : \E i \in 1..Len(transports[t].sent) :
        transports[t].sent[i] = AudioFrame(h)

\* C10: ProcessChunk with missing or zero-length audio data throws the
\* empty-audio error, whatever the store holds, and never calls sendAudio.
C10_EmptyChunkRejected ==
    \A h \in Handlers :
        ( /\ handlers[h].chunk # "none"
          /\ (~handlers[h].data.defined \/ Len(handlers[h].data.bytes) = 0) )
        => ( /\ handlers[h].chunk = "threw"
             /\ handlers[h].cause = "EmptyAudioChunk"
             /\ ~handlers[h].sentAudio
             /\ ~AudioSentFor(h) )

\* Missing data and zero-length data have both been rejected while the
\* connection's session was ACTIVE in the store and the provider connected.
C10_Witness ==
    /\ \E h1, h2 \in Handlers :
        /\ handlers[h1].chunk = "threw" /\ ~handlers[h1].data.defined
        /\ handlers[h2].chunk = "threw" /\ handlers[h2].data.defined
        /\ handlers[h2].data.bytes = << >>
    /\ \E r \in store : r.socketId = SocketA /\ r.status = ACTIVE
    /\ isConnectedStatus

\* AudioSentFor on a given value of transports
AudioFrameIn(trs, h) ==
    \E t \in 1..Len(trs) : \E i \in 1..Len(trs[t].sent) :
        trs[t].sent[i] = AudioFrame(h)

\* C11: ProcessChunk with non-empty bytes, for a connection of which the
\* store holds no session, throws session-not-found and sends nothing to the
\* provider: the lookup finds nothing when no row has the connection's id,
\* and the use case then throws without touching any WebSocket.
C11_NoSessionRejected ==
    [][\A h \in Handlers :
          /\ ( /\ handlers[h].pc = "find_wait"
               /\ handlers'[h].pc = "find_done"
               /\ {r \in store : r.socketId = SocketA} = {} )
             => handlers'[h].found = None
          /\ ( /\ handlers[h].kind = "chunk"
               /\ handlers[h].pc = "find_done"
               /\ handlers[h].found = None
               /\ handlers'[h].pc # "find_done" )
             => /\ handlers'[h].chunk = "threw"
                /\ handlers'[h].cause = "SessionNotFound"
                /\ ~handlers'[h].sentAudio
                /\ transports' = transports]_vars

\* A chunk was rejected as session-not-found while the provider was
\* connected and the store held only another connection's session.
C11_Witness ==
    /\ \E h \in Handlers :
        /\ handlers[h].kind = "chunk"
        /\ handlers[h].chunk = "threw"
        /\ handlers[h].cause = "SessionNotFound"
        /\ Len(handlers[h].data.bytes) > 0
    /\ store = {ForeignRow}
    /\ isConnectedStatus

\* C12: ProcessChunk calls sendAudio exactly when the session it fetched is
\* ACTIVE; with a session of any other status it throws the invalid-state
\* error and writes to no WebSocket; an audio frame is written only for a
\* chunk whose fetched session was ACTIVE.
C12_ForwardOnlyIfActive ==
    [][\A h \in Handlers :
          /\ ( /\ handlers[h].kind = "chunk"
               /\ handlers[h].pc = "find_done"
               /\ handlers[h].found # None
               /\ handlers'[h].pc # "find_done" )
             => IF handlers[h].found[1].status = ACTIVE
                THEN /\ handlers'[h].sentAudio
                     /\ handlers'[h].chunk = "returned"
                ELSE /\ handlers'[h].chunk = "threw"
                     /\ handlers'[h].cause = "InvalidStateTransition"
                     /\ ~handlers'[h].sentAudio
                     /\ transports' = transports
          /\ (~AudioSentFor(h) /\ AudioFrameIn(transports', h))
             => /\ handlers[h].found # None
                /\ handlers[h].found[1].status = ACTIVE]_vars

\* A chunk was rejected because the fetched session was STOPPED.
C12_Witness ==
    \E h \in Handlers :
        /\ handlers[h].kind = "chunk"
        /\ handlers[h].cause = "InvalidStateTransition"
        /\ handlers[h].found[1].status = STOPPED
        /\ handlers[h].local[1].status = STOPPED

C14_DisconnectSwallows ==
    \A h \in Handlers :
        handlers[h].kind = "disconnect" =>
            /\ handlers[h].stop # "none"
            /\ handlers[h].ack = "none"
            /\ \A e \in socketOut : e.h # h
            /\ handlers[h].stop = "threw" => handlers[h].pc = "done"

\* The disconnect of a connection with no session: Stop threw
\* session-not-found and the handler has ended.
C14_Witness ==
    \E h \in Handlers :
        /\ handlers[h].kind = "disconnect"
        /\ handlers[h].stop = "threw"
        /\ handlers[h].cause = "SessionNotFound"
        /\ handlers[h].pc = "done"

\* C15: the store holds at most one session that is PENDING, ACTIVE or
\* STOPPING per connection id.
C15_OneLiveSessionPerConnection ==
    \A c \in {SocketA, SocketB} :
        Cardinality({r \in store : /\ r.socketId = c
                                   /\ r.status \in {PENDING, ACTIVE, STOPPING}})
            <= 1

\* C17: of the Start, ProcessChunk and Stop operations of the connection at
\* most one has begun and not yet finished.
C17_OneOperationAtATime ==
    Cardinality({h \in Handlers :
                    \/ handlers[h].start = "running"
                    \/ handlers[h].chunk = "running"
                    \/ handlers[h].stop = "running"}) <= 1

\* C18: while a Stop is between close()'s end-of-stream frame and its timer,
\* no audio frame is written to any WebSocket.
C18_NoAudioWhileDraining ==
    [][(\E g \in Handlers : handlers[g].pc = "drain") =>
          \A h \in Handlers :
              AudioSentFor(h) \/ ~AudioFrameIn(transports', h)]_vars

\* C19: no audio is written for a chunk while a Start of the connection has
\* begun and not yet returned or thrown.
C19_NoChunkDuringStart ==
    [][\A h \in Handlers :
          (~AudioSentFor(h) /\ AudioFrameIn(transports', h)) =>
              \A g \in Handlers : handlers[g].start # "running"]_vars

\* C16: with the auto-initialization controller, an audio chunk that arrives
\* when a Start of the connection has already returned runs no Start of its
\* own.
C16_StartOnlyOnFirstChunk ==
    [][( /\ Len(handlers') = Len(handlers) + 1
         /\ handlers'[Len(handlers')].kind = "chunk"
         /\ \E g \in Handlers : handlers[g].start = "returned" )
       => handlers'[Len(handlers')].start = "none"]_vars

\* C20: the promise of every close() call is eventually resolved and is
\* never rejected, whatever the provider's state at the call, and without
\* any step of the upstream provider being required.
C20_CloseAlwaysResolves ==
    /\ [](\A h \in Handlers :
            handlers[h].kind = "close" => handlers[h].pc \in {"drain", "closed"})
    /\ \A h \in 1..MaxCalls :
        [](h \in Handlers /\ handlers[h].kind = "close"
              => <>(h \in Handlers /\ handlers[h].pc = "closed"))

\* After a connect, two close() calls have both resolved, and the timer of
\* one of them has closed the WebSocket, with no frame received from
\* upstream.
C20_Witness ==
    /\ Len(handlers) = 3
    /\ handlers[1].kind = "connect"
    /\ handlers[2].kind = "close" /\ handlers[2].pc = "closed"
    /\ handlers[3].kind = "close" /\ handlers[3].pc = "closed"
    /\ transports[1].readyState = CLOSING
    /\ \E i \in 1..Len(transports[1].sent) :
        transports[1].sent[i] = EndOfStreamFrame
    /\ received = << >>

(* ------------- claims about the provider's inbound frames -------------- *)

\* connect() has been called, so a result and an error callback are
\* registered
Registered == \E h \in Handlers : handlers[h].kind = "connect"

\* a close() call has sent the end-of-stream frame and its timer has not
\* fired yet
Draining == \E h \in Handlers :
    handlers[h].kind = "close" /\ handlers[h].pc = "drain"

\* the step delivers a frame from upstream
Delivers == Len(received') = Len(received) + 1

Delivered == received'[Len(received')]

\* C21: a result or error frame that arrives while a close() is in its
\* 500 ms window is handed to the registered callback (the result callback
\* gets the frame's tokens, the error callback is invoked once), and a call
\* of close() leaves the registered callbacks in place.
C21_DrainKeepsCallbacks ==
    [][/\ (Registered /\ Draining /\ Delivers) =>
            /\ Delivered = ResultFrame =>
                 /\ Len(resultCalls') = Len(resultCalls) + 1
                 /\ resultCalls'[Len(resultCalls')].result = HelloResult
                 /\ errorCalls' = errorCalls
            /\ Delivered = ErrorFrame =>
                 /\ errorCalls' = errorCalls + 1
                 /\ resultCalls' = resultCalls
            /\ callbacks' = callbacks
       /\ (/\ Len(handlers') = Len(handlers) + 1
           /\ handlers'[Len(handlers')].kind = "close") =>
            callbacks' = callbacks]_vars

\* A connect, then a close that sent the end-of-stream frame on the open
\* WebSocket and is still waiting for its timer, and a result frame that
\* arrived after that close was called and reached the result callback.
C21_Witness ==
    /\ Registered
    /\ \E h \in Handlers :
        /\ handlers[h].kind = "close" /\ handlers[h].pc = "drain"
        /\ transports[ws].readyState = OPEN
        /\ transports[ws].sent[Len(transports[ws].sent)] = EndOfStreamFrame
        /\ received # << >> /\ received[Len(received)] = ResultFrame
        /\ resultCalls # << >>
        /\ resultCalls[Len(resultCalls)].arrived >= h
        /\ resultCalls[Len(resultCalls)].result = HelloResult

\* C27: a frame that parses as JSON and carries an error indicator invokes
\* the error callback once and the result callback not at all, whether or
\* not it also carries tokens.
C27_ErrorFrameOnlyToErrorCallback ==
    [][(Registered /\ Delivers /\ Delivered.text /\ Delivered.json
            /\ Delivered.error_code) =>
          /\ errorCalls' = errorCalls + 1
          /\ resultCalls' = resultCalls]_vars

\* An error response that also carries tokens was the last frame delivered:
\* the error callback has been invoked and the result callback never.
C27_Witness ==
    /\ Registered
    /\ received # << >>
    /\ received[Len(received)] = ErrorWithTokensFrame
    /\ errorCalls = 1
    /\ resultCalls = << >>

\* C28: a frame that is not JSON invokes the error callback once and leaves
\* every WebSocket, isConnected() and the registered callbacks as they
\* were, and a result frame delivered at any time, after such a frame
\* included, reaches the result callback.
C28_MalformedFrameKeepsConnection ==
    [][/\ (Registered /\ Delivers /\ Delivered = MalformedFrame) =>
            /\ errorCalls' = errorCalls + 1
            /\ resultCalls' = resultCalls
            /\ transports' = transports
            /\ ws' = ws
            /\ isConnectedStatus' = isConnectedStatus
            /\ callbacks' = callbacks
       /\ (Registered /\ Delivers /\ Delivered = ResultFrame) =>
            /\ Len(resultCalls') = Len(resultCalls) + 1
            /\ resultCalls'[Len(resultCalls')].result = HelloResult]_vars

\* A frame that is not JSON was delivered on the open WebSocket, which is
\* still open and connected, and the result frame delivered after it
\* reached the result callback.
C28_Witness ==
    /\ received = <<MalformedFrame, ResultFrame>>
    /\ errorCalls = 1
    /\ Len(resultCalls) = 1
    /\ resultCalls[1].result = HelloResult
    /\ ws # 0 /\ transports[ws].readyState = OPEN
    /\ isConnectedStatus

(* ----------------- claims about the provider's calls ------------------- *)

\* the step is a call of the provider method named kind
Calls(kind) ==
    /\ Len(handlers') = Len(handlers) + 1
    /\ handlers'[Len(handlers')].kind = kind

\* the WebSocket held in this.ws is open
ChannelOpen == ws # 0 /\ transports[ws].readyState = OPEN

\* C22: sendAudio called while the channel is not open sends no frame and
\* invokes the registered error callback once.
C22_SendAudioReportsNotOpen ==
    [][(Calls("sendAudio") /\ Registered /\ ~ChannelOpen) =>
          /\ \A t \in Transports : transports'[t].sent = transports[t].sent
          /\ errorCalls' = errorCalls + 1]_vars

(* -------------- claims about failures while streaming ------------------ *)

\* handler h, a ProcessAudioChunk, calls sendAudio in this step and the
\* provider reports its failure to the error callback
SendAudioFails(h) ==
    /\ handlers[h].kind = "chunk"
    /\ ~handlers[h].sentAudio /\ handlers'[h].sentAudio
    /\ errorCalls' = errorCalls + 1

\* C23: when the sendAudio of a ProcessAudioChunk fails, the ACTIVE session
\* whose row the chunk found is still ACTIVE afterwards.
C23_FailedSendKeepsActive ==
    [][\A h \in Handlers : SendAudioFails(h) =>
          LET id == handlers'[h].local[1].id IN
          (id \in 1..Len(sessions) /\ sessions[id].status = ACTIVE) =>
              sessions'[id].status = ACTIVE]_vars

(* --------------------- claims about connect() -------------------------- *)

\* C24: the step in which a connect() resolves writes the configuration
\* frame to the open WebSocket held in this.ws, and on every WebSocket each
\* audio frame comes after a configuration frame.
C24_ConfigBeforeResolveAndAudio ==
    /\ [][\A t \in Transports :
            (~transports[t].resolved /\ transports'[t].resolved) =>
                /\ ws # 0
                /\ transports'[ws].readyState = OPEN
                /\ transports'[ws].sent =
                       Append(transports[ws].sent, ConfigFrame)]_vars
    /\ [](\A t \in Transports : \A i \in 1..Len(transports[t].sent) :
            transports[t].sent[i].k = "audio" =>
                \E j \in 1..(i - 1) : transports[t].sent[j] = ConfigFrame)

\* A Start whose connect resolved and which returned, followed by a chunk
\* whose audio frame was written after the configuration frame.
C24_Witness ==
    \E h \in Handlers : \E t \in Transports :
        /\ handlers[h].kind = "start" /\ handlers[h].start = "returned"
        /\ handlers[h].tr = t /\ transports[t].resolved
        /\ Len(transports[t].sent) >= 2
        /\ transports[t].sent[1] = ConfigFrame
        /\ transports[t].sent[2].k = "audio"

\* The promise of the connect() call that constructed WebSocket t can still
\* be settled by what is already under way: t has yet to open or fail, or
\* the sendConfig retry timer is set and the WebSocket it tests, this.ws,
\* is open or may still open.
CanSettle(t) ==
    \/ transports[t].readyState = CONNECTING
    \/ /\ transports[t].retry
       /\ transports[ws].readyState \in {CONNECTING, OPEN}

\* C25: a connect() whose promise is pending never depends on an endless
\* series of sendConfig retries: its WebSocket is still connecting, or its
\* retry tests a WebSocket that is open or may still open.
C25_ConnectSettles ==
    \A h \in Handlers :
        (handlers[h].kind = "connect" /\ handlers[h].pc = "connect_wait") =>
            CanSettle(handlers[h].tr)

(* ------------- claims about errors reported during Start --------------- *)

\* handler h, a Start, is awaiting connect
Connecting(h) ==
    handlers[h].kind = "start" /\ handlers[h].pc = "connect_wait"

\* C26: a Start whose session the error callback marked ERROR while it was
\* awaiting connect fails with the connect error, also when its connect
\* resolves afterwards.
C26_StartFailsWithConnectError ==
    [][\A h \in Handlers :
          ( /\ Connecting(h)
            /\ sessions[handlers[h].sid].status = ERROR
            /\ handlers'[h].pc = "done" ) =>
              handlers'[h].cause = "connect"]_vars

(* ---------------- claims about operations' frame effects --------------- *)

\* C29: markForStopping() never throws; called on an ACTIVE session it
\* changes the status to STOPPING and nothing else, and called in any other
\* status it changes nothing.
C29_MarkForStoppingOnlyFromActive ==
    [][entCall'.method = "markForStopping" =>
          /\ ~entCall'.threw
          /\ ent' = IF ent.status = ACTIVE
                    THEN [ent EXCEPT !.status = STOPPING]
                    ELSE ent]_vars

\* markForStopping() was the last call made on a session that had failed:
\* it is still ERROR, with its end time and error message.
C29_Witness ==
    /\ entCall = [method |-> "markForStopping", threw |-> FALSE]
    /\ ent.status = ERROR
    /\ ent.endedAt # NoDate
    /\ ent.errorMessage # NoMessage

\* the step is one of handler h's, a ProcessAudioChunk: its arrival, its
\* select, or its continuation
ChunkSteps(h) ==
    \/ h \notin Handlers /\ h \in DOMAIN handlers'
          /\ handlers'[h].kind = "chunk"
    \/ h \in Handlers /\ handlers[h].kind = "chunk"
          /\ handlers'[h] # handlers[h]

\* C30: no step of a ProcessAudioChunk changes the store, the session it
\* fetched stays as the row read, and the session objects in memory stay as
\* they were unless the provider reports a failure of sendAudio.
C30_ProcessChunkWritesNothing ==
    [][\A h \in 1..MaxEvents : ChunkSteps(h) =>
          /\ store' = store
          /\ handlers'[h].local # None =>
                handlers'[h].local[1] = mapToEntity(handlers'[h].found[1])
          /\ errorCalls' = errorCalls => sessions' = sessions]_vars

\* One chunk was forwarded and returned, another was rejected, and the row
\* of the session is as Start saved it.
C30_Witness ==
    \E h1, h2 \in Handlers :
        /\ handlers[h1].kind = "chunk" /\ handlers[h1].chunk = "returned"
        /\ AudioSentFor(h1)
        /\ handlers[h2].kind = "chunk" /\ handlers[h2].chunk = "threw"
        /\ \E r \in store :
            /\ r.id = handlers[h1].local[1].id
            /\ r.status = ACTIVE /\ r.endedAt = NoDate
            /\ r.results = << >>

(* ----------------------- claims about the store ------------------------ *)

\* C31: no step of Start, ProcessChunk, Stop or the disconnect handler
\* removes a row: every row of the store is still there after the step,
\* with its id, connection and start time.
C31_RowsAreNeverRemoved ==
    [][\A r \in store : \E q \in store' :
          /\ q.id = r.id
          /\ q.socketId = r.socketId
          /\ q.startedAt = r.startedAt]_vars

\* A Stop returned and the disconnect handler that arrived after it has
\* finished: the row of the stopped session is in the store, STOPPED.
C31_Witness ==
    \E h1, h2 \in Handlers :
        /\ h1 < h2
        /\ handlers[h1].kind = "stop" /\ handlers[h1].stop = "returned"
        /\ handlers[h2].kind = "disconnect" /\ handlers[h2].pc = "done"
        /\ \E r \in store :
            /\ r.id = handlers[h1].local[1].id
            /\ r.status = STOPPED

\* C34: every row of the store is ACTIVE or STOPPED and carries no error
\* message.
C34_RowsAreActiveOrStopped ==
    \A r \in store :
        /\ r.status \in {ACTIVE, STOPPED}
        /\ r.errorMessage = NoMessage

\* Start has saved a session that the error callback marked ERROR
\* afterwards: its row is still ACTIVE; and a Stop has written a STOPPED
\* row.
C34_Witness ==
    /\ \E id \in 1..Len(sessions) :
          /\ sessions[id].status = ERROR
          /\ \E r \in store : r.id = id /\ r.status = ACTIVE
    /\ \E h \in Handlers :
          /\ handlers[h].stop = "returned"
          /\ \E r \in store :
                r.id = handlers[h].local[1].id /\ r.status = STOPPED

\* C35: once Start has returned, the session object it created and the row
\* of that session agree on the status: when the object is ERROR the row
\* is not ACTIVE.
C35_ObjectAndRowAgree ==
    \A h \in Handlers :
        handlers[h].start = "returned" =>
            LET id == handlers[h].sid IN
            sessions[id].status = ERROR =>
                \A r \in Rows(id) : r.status # ACTIVE

RECURSIVE Offset(_, _)
Offset(tokens, i) ==
    IF i = 1 THEN 0
    ELSE Offset(tokens, i - 1) + Len(tokens[i - 1].text) + 1

\* C32: getTranscribedText() is the empty string for no results and the
\* token's text for one; in general it holds each token's text at the
\* place its predecessors' texts and one space each leave it, a space
\* after every token but the last, and nothing else.
C32_TranscribedTextIsSpaceJoined ==
    LET tokens == ent.results
        n == Len(tokens)
        text == getTranscribedText(ent)
    IN  /\ n = 0 => text = << >>
        /\ n = 1 => text = tokens[1].text
        /\ n > 0 => Len(text) = Offset(tokens, n) + Len(tokens[n].text)
        /\ \A i \in 1..n :
              /\ SubSeq(text, Offset(tokens, i) + 1,
                        Offset(tokens, i) + Len(tokens[i].text))
                    = tokens[i].text
              /\ i < n =>
                    text[Offset(tokens, i) + Len(tokens[i].text) + 1] = " "

\* Three results, the second with an empty text: the transcribed text is
\* "hello", two spaces, "hi".
C32_Witness ==
    /\ ent.results = <<Token(Hello), Token(EmptyText), Token(Hi)>>
    /\ getTranscribedText(ent) = Hello \o <<" ", " ">> \o Hi

(* ------------------ claims about the upstream connection --------------- *)

\* handler h, a ProcessAudioChunk, calls provider.sendAudio in this step
SendsAudio(h) ==
    /\ handlers[h].kind = "chunk"
    /\ ~handlers[h].sentAudio /\ handlers'[h].sentAudio

\* C33: once the WebSocket the provider holds has failed or closed, a
\* sendAudio made for an ACTIVE session reports the not-connected error to
\* the error callback.
C33_SendAudioAfterFailureReports ==
    [][\A h \in Handlers :
          (SendsAudio(h) /\ ws # 0 /\ transports[ws].readyState = CLOSED) =>
              /\ errorCalls' = errorCalls + 1
              /\ sessions'[callbacks].errorMessage
                    = "Soniox connection not established"]_vars

\* handler h, a disconnect handler, finishes in this step
DisconnectCompletes(h) ==
    /\ handlers[h].kind = "disconnect"
    /\ handlers[h].pc # "done" /\ handlers'[h].pc = "done"

\* C37: when the disconnect handler of the connection finishes after its
\* Stop found no session, the provider is not connected and none of its
\* WebSockets is open.
C37_DisconnectLeavesProviderClosed ==
    [][\A h \in Handlers :
          (DisconnectCompletes(h) /\ handlers'[h].cause = "SessionNotFound") =>
          /\ ~isConnectedStatus'
          /\ \A t \in Transports : transports'[t].readyState # OPEN]_vars

\* C38: when the Stop run by the disconnect handler returns, every row of
\* the connection is STOPPED or ERROR.
C38_DisconnectFinalizesAllSessions ==
    [][\A h \in Handlers :
          ( /\ handlers[h].kind = "disconnect"
            /\ handlers[h].stop # "returned"
            /\ handlers'[h].stop = "returned" ) =>
              \A r \in store' :
                  r.socketId = SocketA => r.status \in Terminal]_vars

\* C39: on every WebSocket the audio frames lie in the order in which
\* their audio_chunk events arrived (a frame carries the arrival number of
\* its event).
C39_AudioInArrivalOrder ==
    \A t \in Transports :
        \A i, j \in 1..Len(transports[t].sent) :
            ( /\ i < j
              /\ transports[t].sent[i].k = "audio"
              /\ transports[t].sent[j].k = "audio" ) =>
                transports[t].sent[i].n < transports[t].sent[j].n

\* C40: the only WebSocket of the provider that may be open is the one it
\* holds in this.ws, and a step replaces the registered callbacks only when
\* the session they belong to is STOPPED or ERROR.
C40_OneTransportOneSession ==
    /\ [](\A t \in Transports :
            transports[t].readyState = OPEN => t = ws)
    /\ [][(callbacks # 0 /\ callbacks' # callbacks) =>
            sessions[callbacks].status \in Terminal]_vars

====
